---- MODULE Spec2Model ----
(***************************************************************************)
(* Match service of core-api-backend (app/services/match_service.py):      *)
(* pending matches, the substitution-aware rating update, idempotent       *)
(* ingestion, the mutation operations and the approval transaction.        *)
(*                                                                         *)
(* Every handler is an asyncio coroutine: it runs atomically between two   *)
(* awaits, and other handlers may run at every await.  A handler is        *)
(* therefore a task with a program counter, and one action is the code     *)
(* between two awaits.                                                      *)
(***************************************************************************)
EXTENDS Integers, Sequences, FiniteSets, TLC

(* ------------------------------ bounds -------------------------------- *)
NTasks == 2          \* concurrent requests
MaxOid == 2          \* pending records ever inserted
MaxMsgs == 2         \* length of a correlation-id list
MaxPlayers == 4      \* rows of one match

(* --------------------------- configuration ---------------------------- *)
TsMu == 25             \* settings.ts_mu
TsSigma == 8           \* settings.ts_sigma
MinPointsForSubs == 1  \* settings.min_points_for_subs
LeaderboardCutoff == 2 \* { "games": { "$gt": 2 } }
LeaderboardLimit == 100

Tasks == 1..NTasks
Oids == 1..MaxOid
BadKey == -1           \* a match reference ObjectId() rejects
NoId == 0              \* discord_id / steam_id None
Ids == {1, 2, 3}       \* persistent identities (discord ids)
Approvers == {9}
Stamp == 1             \* datetime.now(UTC) of an approval; 0 is None
Spaces == {"delta", "season_delta", "combined_delta"}

(* The identity directory (db.server_members.users): steam id -> discord   *)
(* id.  Steam id s belongs to discord id s for s in Ids; steam id 7 is in   *)
(* no directory row.                                                        *)
steam_to_discord_id(steam) == IF steam \in Ids THEN steam ELSE NoId
discord_to_steam_id(discord) == IF discord \in Ids THEN discord ELSE NoId

(* --------------------------- parsed saves ----------------------------- *)
(* Strings are sequences of character codes; Comma is ','.                 *)
Comma == 0
Row(steam, civ, leader, team, placement) ==
    [steam_id |-> steam, civ |-> civ, leader |-> leader, team |-> team,
     player_alive |-> TRUE, placement |-> placement]

(* What the save parsers return for the files the model submits.  File 0   *)
(* starts with neither magic prefix.                                       *)
Files == 0..4
GoodFiles == 1..4
parsed(f) ==
    CASE f = 1 -> [game |-> <<6>>, map_type |-> <<1>>,
                   players |-> << Row(1, <<1>>, <<1>>, 0, 0),
                                  Row(2, <<2>>, <<2>>, 1, 1) >>]
      [] f = 2 -> [game |-> <<6>>, map_type |-> <<2>>,
                   players |-> << Row(1, <<1>>, <<1>>, 0, 1),
                                  Row(3, <<2>>, <<1>>, 1, 0),
                                  Row(7, <<3>>, <<>>, 1, 0) >>]
      [] f = 3 -> [game |-> <<6>>, map_type |-> <<1>>,
                   players |-> << Row(2, <<3>>, <<1>>, 0, 0),
                                  Row(3, <<1>>, <<2>>, 0, 0) >>]
      [] OTHER -> [game |-> <<6>>, map_type |-> <<1>>,
                   players |-> << Row(2, <<1>>, <<2>>, 1, 0),
                                  Row(3, <<2>>, <<1>>, 2, 1) >>]

parse_save_ok(f) == f \in GoodFiles

RECURSIVE JoinFrom(_, _)
JoinFrom(parts, k) ==
    IF k > Len(parts) THEN <<>>
    ELSE IF k = Len(parts) THEN parts[k]
    ELSE parts[k] \o <<Comma>> \o JoinFrom(parts, k + 1)

(* ','.join([game, map_type] + [civ + leader ...]); sha256 is taken to be  *)
(* collision free, so the digest is the joined string itself.              *)
save_file_hash(p) ==
    JoinFrom(<<p.game, p.map_type>> \o
             [i \in 1..Len(p.players) |-> p.players[i].civ \o p.players[i].leader], 1)

(* ------------------------------ rows ---------------------------------- *)
(* PlayerModel.  whole = FALSE marks an array element that a dotted $set   *)
(* created past the end of the array: it holds only the fields that were   *)
(* set, so the MatchModel constructor rejects the document.                *)
PlayerModel(steam, civ, team, leader, alive, discord, placement) ==
    [steam_id |-> steam, civ |-> civ, team |-> team, leader |-> leader,
     player_alive |-> alive, discord_id |-> discord, placement |-> placement,
     quit |-> FALSE, delta |-> 0, season_delta |-> 0, combined_delta |-> 0,
     is_sub |-> FALSE, subbed_out |-> FALSE, whole |-> TRUE]

PartialRow ==
    [steam_id |-> NoId, civ |-> <<>>, team |-> 0, leader |-> <<>>,
     player_alive |-> FALSE, discord_id |-> NoId, placement |-> 0,
     quit |-> FALSE, delta |-> 0, season_delta |-> 0, combined_delta |-> 0,
     is_sub |-> FALSE, subbed_out |-> FALSE, whole |-> FALSE]

(* MatchModel; present = FALSE is "no document" (find_one returned None).  *)
NoDoc ==
    [present |-> FALSE, hash |-> <<>>, players |-> <<>>, msgs |-> <<>>,
     flagged |-> FALSE, approved_at |-> 0, approver_discord_id |-> NoId]

MatchModelOk(doc) == \A i \in 1..Len(doc.players) : doc.players[i].whole

(* StatModel without civs and lastModified.                                *)
StatModel(id, mu, sigma, games, wins, first, subbedIn, subbedOut) ==
    [id |-> id, mu |-> mu, sigma |-> sigma, games |-> games, wins |-> wins,
     first |-> first, subbedIn |-> subbedIn, subbedOut |-> subbedOut]

NoRow == StatModel(NoId, 0, 0, 0, 0, 0, 0, 0)
DefaultStat(id) == StatModel(id, TsMu, TsSigma, 0, 0, 0, 0, 0)

Field(p, name) ==
    CASE name = "delta" -> p.delta
      [] name = "season_delta" -> p.season_delta
      [] OTHER -> p.combined_delta

SetField(p, name, v) ==
    CASE name = "delta" -> [p EXCEPT !.delta = v]
      [] name = "season_delta" -> [p EXCEPT !.season_delta = v]
      [] OTHER -> [p EXCEPT !.combined_delta = v]

Max(a, b) == IF a >= b THEN a ELSE b
SeqSet(s) == {s[i] : i \in 1..Len(s)}
InsertAt(s, k, e) == SubSeq(s, 1, k - 1) \o <<e>> \o SubSeq(s, k, Len(s))
RemoveAt(s, k) == SubSeq(s, 1, k - 1) \o SubSeq(s, k + 1, Len(s))

(* --------------------------- rating update ---------------------------- *)
RECURSIVE SumMu(_, _)
SumMu(S, ranking) ==
    IF S = {} THEN 0
    ELSE LET i == CHOOSE j \in S : TRUE
         IN ranking[i].mu + SumMu(S \ {i}, ranking)

RoundHalfEven(x2) ==
    \* Python round() of x2/2: ties go to the even integer
    IF x2 % 2 = 0 THEN x2 \div 2
    ELSE LET lo == (x2 - 1) \div 2
         IN IF lo % 2 = 0 THEN lo ELSE lo + 1

(* Team partitioner: wo = TRUE is teams_wo_subs, FALSE teams_with_sub_ins. *)
InGrouping(p, wo) == IF wo THEN ~p.is_sub ELSE (p.is_sub \/ ~p.subbed_out)
Members(players, wo, team) ==
    {i \in 1..Len(players) : players[i].team = team /\ InGrouping(players[i], wo)}
GroupTeams(players, wo) ==
    {players[i].team : i \in {j \in 1..Len(players) : InGrouping(players[j], wo)}}
FirstOf(S) == CHOOSE i \in S : \A j \in S : i <= j
TeamPlacement(players, wo, team) == players[FirstOf(Members(players, wo, team))].placement

(* The TrueSkill environment (make_ts_env().rate), in half points: a team  *)
(* gains from every team ranked below it and loses to every team ranked    *)
(* above it, more when the winner had the lower summed mean; equal ranks   *)
(* move nothing.  The posterior uncertainty shrinks by one down to 1.      *)
UpsetGain == 3
FavGain == 2
PairGain(rT, muT, rU, muU) ==
    IF rT < rU THEN (IF muT < muU THEN UpsetGain ELSE FavGain)
    ELSE IF rT > rU THEN -(IF muU < muT THEN UpsetGain ELSE FavGain)
    ELSE 0

RECURSIVE SumGain(_, _, _, _, _)
SumGain(others, players, ranking, wo, team) ==
    IF others = {} THEN 0
    ELSE LET u == CHOOSE v \in others : TRUE
         IN PairGain(TeamPlacement(players, wo, team),
                     SumMu(Members(players, wo, team), ranking),
                     TeamPlacement(players, wo, u),
                     SumMu(Members(players, wo, u), ranking))
            + SumGain(others \ {u}, players, ranking, wo, team)

rate_mu2(players, ranking, wo, i) ==
    2 * ranking[i].mu
    + SumGain(GroupTeams(players, wo) \ {players[i].team}, players, ranking, wo,
              players[i].team)
rate_sigma(ranking, i) == IF ranking[i].sigma > 1 THEN ranking[i].sigma - 1 ELSE ranking[i].sigma
rate_ok(players, wo) == Cardinality(GroupTeams(players, wo)) >= 2

(* The sub floor / cap of update_player_stats.                             *)
no_policy(p, delta) == delta
PolicyDelta(p, delta) ==
    IF p.is_sub THEN Max(MinPointsForSubs, delta)
    ELSE IF p.subbed_out THEN (IF delta < 0 THEN delta ELSE 0)
    ELSE delta

RawDelta(players, ranking, i) ==
    IF players[i].discord_id # NoId
    THEN RoundHalfEven(rate_mu2(players, ranking, ~players[i].is_sub, i) - 2 * ranking[i].mu)
    ELSE 0

(* update_player_stats: none is the (None, None) return, raised a         *)
(* ValueError of rate() on fewer than two rating groups.                   *)
update_player_stats(match, players_ranking, delta_value_name) ==
    LET ps == match.players
        n == Len(ps)
        num_teams == Cardinality({ps[i].team : i \in 1..n})
        newps == SubSeq([i \in 1..n |->
                    SetField(ps[i], delta_value_name,
                             PolicyDelta(ps[i], RawDelta(ps, players_ranking, i)))], 1, n)
        post == SubSeq([i \in 1..n |->
                    [players_ranking[i] EXCEPT
                       !.mu = players_ranking[i].mu + Field(newps[i], delta_value_name),
                       !.sigma = rate_sigma(players_ranking, i)]], 1, n)
    IN IF num_teams <= 1
       THEN [none |-> TRUE, raised |-> FALSE, match |-> match, post |-> <<>>]
       ELSE IF ~(rate_ok(ps, TRUE) /\ rate_ok(ps, FALSE))
       THEN [none |-> FALSE, raised |-> TRUE, match |-> match, post |-> <<>>]
       ELSE [none |-> FALSE, raised |-> FALSE,
             match |-> [match EXCEPT !.players = newps], post |-> post]

(* ------------------------------ state --------------------------------- *)
VARIABLES
    pending,        \* db.match_reporter.pending_matches: _id -> document
    nextOid,        \* number of documents inserted so far (the last _id)
    validated,      \* db.match_reporter.validated_matches, in insertion order
    stats,          \* the three aggregate-stats collections: space -> _id -> row
    subs_table,     \* db.server_members.subs: _id -> subs_in
    lockHolder,     \* approve_lock: the task inside it, 0 when free
    lockWaiters,    \* approve_lock: the tasks waiting for it, oldest first
    task,           \* the running handlers: their arguments, position and locals
    reported        \* the outcome a handler has just handed to its caller

vars == <<pending, nextOid, validated, stats, subs_table, lockHolder, lockWaiters,
          task, reported>>
stores == <<pending, nextOid, validated, stats, subs_table>>

NoPost == [s \in Spaces |-> <<>>]
Idle ==
    [op |-> "idle", pc |-> "idle", oid |-> 0, a1 |-> 0, a2 |-> 0, order |-> <<>>,
     res |-> NoDoc, match |-> NoDoc, post |-> NoPost]
NoReport ==
    [task |-> 0, op |-> "none", status |-> "none", oid |-> 0, a1 |-> 0, match_id |-> 0,
     repeated |-> FALSE, space |-> "", rows |-> <<>>]

Init ==
    /\ pending = [o \in Oids |-> NoDoc]
    /\ nextOid = 0
    /\ validated = <<>>
    /\ stats = [s \in Spaces |-> [id \in Ids |-> NoRow]]
    /\ subs_table = [id \in Ids |-> 0]
    /\ lockHolder = 0
    /\ lockWaiters = <<>>
    /\ task = [t \in Tasks |-> Idle]
    /\ reported = NoReport

(* A request may arrive at a free task; nothing runs between a handler's   *)
(* last statement and the delivery of its outcome.                         *)
Free(t) == task[t].pc = "idle" /\ reported = NoReport
At(t, op, pc) == task[t].op = op /\ task[t].pc = pc /\ reported = NoReport

Finish(t, op, status, oid, a1, match_id, repeated) ==
    /\ task' = [task EXCEPT ![t] = Idle]
    /\ reported' = [task |-> t, op |-> op, status |-> status, oid |-> oid, a1 |-> a1,
                    match_id |-> match_id, repeated |-> repeated,
                    space |-> "", rows |-> <<>>]

\* the outcome of a leaderboard query: the collection asked for and the rows
FinishQuery(t, op, space, rows) ==
    /\ task' = [task EXCEPT ![t] = Idle]
    /\ reported' = [NoReport EXCEPT !.task = t, !.op = op, !.status = "ok",
                                    !.space = space, !.rows = rows]

Goto(t, rec) == task' = [task EXCEPT ![t] = rec] /\ reported' = NoReport

Deliver == reported # NoReport /\ reported' = NoReport
           /\ UNCHANGED <<stores, lockHolder, lockWaiters, task>>

(* The correlation id a caller supplies: one per requesting task.          *)
MsgOf(t) == t

(* _to_oid and find_one({"_id": oid}).                                     *)
to_oid_ok(match_id) == match_id # BadKey
find_one(match_id) == IF match_id \in Oids THEN pending[match_id] ELSE NoDoc

(* ----------------------------- rankings ------------------------------- *)
get_player_ranking(discord_id, space) ==
    IF discord_id = NoId THEN DefaultStat(0)
    ELSE IF stats[space][discord_id].id # NoId THEN stats[space][discord_id]
    ELSE DefaultStat(discord_id)

get_players_ranking(match, space) ==
    [i \in 1..Len(match.players) |-> get_player_ranking(match.players[i].discord_id, space)]

(* The three ranking reads and the three update_player_stats calls every   *)
(* handler makes, in program order: r1, r2, r3 are what the calls return,  *)
(* each call taking the match the one before it returned.  The first       *)
(* (None, None) makes the next call fail on None.players, so a single-team *)
(* match raises as well.                                                   *)
Recompute(match) ==
    LET ranking(s) == get_players_ranking(match, s)
        runs == UNION { UNION { { <<r1, r2, r3>> :
                   r3 \in {update_player_stats(r2.match, ranking("combined_delta"),
                                               "combined_delta")} } :
                   r2 \in {update_player_stats(r1.match, ranking("season_delta"),
                                               "season_delta")} } :
                   r1 \in {update_player_stats(match, ranking("delta"), "delta")} }
        r == CHOOSE x \in runs : TRUE
    IN [raised |-> \E k \in 1..3 : r[k].none \/ r[k].raised,
        match |-> r[3].match,
        post |-> [s \in Spaces |->
                    CASE s = "delta" -> r[1].post
                      [] s = "season_delta" -> r[2].post
                      [] OTHER -> r[3].post]]

(* $set of dotted paths players.<i>.<field> for i < n on the stored        *)
(* document: an index past the end of the stored array creates an element  *)
(* holding only the fields set.  No document matched: nothing happens.     *)
StoredRow(doc, i) == IF i <= Len(doc.players) THEN doc.players[i] ELSE PartialRow
SetRows(doc, n, rows) ==
    [i \in 1..Max(Len(doc.players), n) |-> IF i <= n THEN rows[i] ELSE doc.players[i]]

(* --------------------------- create_from_save -------------------------- *)
match_id_to_discord(players) ==
    [i \in 1..Len(players) |->
        PlayerModel(players[i].steam_id, players[i].civ, players[i].team,
                    players[i].leader, players[i].player_alive,
                    IF players[i].steam_id # NoId
                    THEN steam_to_discord_id(players[i].steam_id) ELSE NoId,
                    players[i].placement)]

never_found(h) == {}
PendingWithHash(h) == {o \in Oids : pending[o].present /\ pending[o].hash = h}

(* Documents inserted so far plus the inserts of the ingestions that are   *)
(* past their lookup.                                                      *)
Reserved ==
    nextOid + Cardinality({t \in Tasks : task[t].op = "create_from_save"})

\* parse, fingerprint, find_one({"save_file_hash": ...})
CreateFind(t, f, room) ==
    /\ Free(t)
    /\ UNCHANGED <<stores, lockHolder, lockWaiters>>
    /\ IF ~parse_save_ok(f)
       THEN Finish(t, "create_from_save", "ParseError", 0, f, 0, FALSE)
       ELSE LET h == save_file_hash(parsed(f))
                found == PendingWithHash(h)
            IN IF found # {}
               THEN Finish(t, "create_from_save", "ok", 0, f, FirstOf(found), TRUE)
               ELSE /\ room
                    /\ Goto(t, [Idle EXCEPT
                                  !.op = "create_from_save", !.pc = "rank", !.a1 = f,
                                  !.match = [NoDoc EXCEPT
                                               !.present = TRUE, !.hash = h,
                                               !.players = parsed(f).players,
                                               !.msgs = <<MsgOf(t)>>]])

\* match_id_to_discord, the ranking reads, the three rating updates
CreateRank(t) ==
    /\ At(t, "create_from_save", "rank")
    /\ UNCHANGED <<stores, lockHolder, lockWaiters>>
    /\ LET m == [task[t].match EXCEPT !.players = match_id_to_discord(@)]
           r == Recompute(m)
       IN IF r.raised
          THEN Finish(t, "create_from_save", "Crash", 0, task[t].a1, 0, FALSE)
          ELSE Goto(t, [task[t] EXCEPT !.pc = "insert", !.match = r.match])

\* insert_one(match.dict())
CreateInsert(t) ==
    /\ At(t, "create_from_save", "insert")
    /\ nextOid' = nextOid + 1
    /\ pending' = [pending EXCEPT ![nextOid + 1] = task[t].match]
    /\ UNCHANGED <<validated, stats, subs_table, lockHolder, lockWaiters>>
    /\ Finish(t, "create_from_save", "ok", 0, task[t].a1, nextOid + 1, FALSE)

(* ---------------------------- approve_match ---------------------------- *)
get_player_stats_db(player, player_new_stats, delta_value_name) ==
    StatModel(player.discord_id,
              player_new_stats.mu,
              player_new_stats.sigma,
              player_new_stats.games + 1,
              player_new_stats.wins + (IF Field(player, delta_value_name) > 0 THEN 1 ELSE 0),
              player_new_stats.first + (IF player.placement = 0 THEN 1 ELSE 0),
              player_new_stats.subbedIn + (IF player.is_sub THEN 1 ELSE 0),
              player_new_stats.subbedOut + (IF player.subbed_out THEN 1 ELSE 0))

(* The writes of the transaction body, in program order.                   *)
PlayerWrites(match, i) ==
    << [kind |-> "stat", i |-> i, space |-> "delta"],
       [kind |-> "stat", i |-> i, space |-> "season_delta"],
       [kind |-> "stat", i |-> i, space |-> "combined_delta"] >>
    \o (IF match.players[i].is_sub
        THEN << [kind |-> "subs", i |-> i, space |-> "delta"] >> ELSE <<>>)

RECURSIVE AllPlayerWrites(_, _)
AllPlayerWrites(match, i) ==
    IF i > Len(match.players) THEN <<>>
    ELSE PlayerWrites(match, i) \o AllPlayerWrites(match, i + 1)

TxnWrites(match) ==
    AllPlayerWrites(match, 1)
    \o << [kind |-> "validated", i |-> 0, space |-> "delta"],
          [kind |-> "delete", i |-> 0, space |-> "delta"] >>

CurrentStores ==
    [pending |-> pending, validated |-> validated, stats |-> stats,
     subs_table |-> subs_table]

\* pending_matches.delete_one({"_id": oid}, session=session)
delete_none(st, oid) == st
delete_one(st, oid) == [st EXCEPT !.pending[oid] = NoDoc]

ApplyWrite(st, w, oid, match, post) ==
    CASE w.kind = "stat" ->
           [st EXCEPT !.stats[w.space][match.players[w.i].discord_id] =
               get_player_stats_db(match.players[w.i], post[w.space][w.i], w.space)]
      [] w.kind = "subs" ->
           [st EXCEPT !.subs_table[match.players[w.i].discord_id] = @ + 1]
      [] w.kind = "validated" ->
           [st EXCEPT !.validated = Append(@, [src |-> oid, doc |-> match])]
      [] OTHER -> delete_one(st, oid)

RECURSIVE ApplyWrites(_, _, _, _, _, _)
ApplyWrites(st, ws, k, oid, match, post) ==
    IF k = 0 THEN st
    ELSE ApplyWrite(ApplyWrites(st, ws, k - 1, oid, match, post), ws[k], oid, match, post)

(* session.abort_transaction(): the stores as they were before the         *)
(* transaction, whatever was written inside it.                            *)
abort_keeps_writes(before, written) == written
abort_transaction(before, written) == before

(* approve_lock (asyncio.Lock).  acquire() takes a free lock at once when  *)
(* nobody waits for it, and otherwise queues the caller; a released lock   *)
(* goes to the oldest waiter.  Leaving the async with block, by return or  *)
(* by exception, releases the lock.                                        *)
no_gate == TRUE
can_acquire == lockHolder = 0 /\ lockWaiters = <<>>
wake_while_held(t) == lockWaiters # <<>> /\ Head(lockWaiters) = t
can_wake(t) == lockHolder = 0 /\ lockWaiters # <<>> /\ Head(lockWaiters) = t
release_on_success_only(t, status) == IF status = "ok" THEN 0 ELSE t
lock_after_exit(t, status) == 0

(* The precondition of an approval: every row has a discord id.            *)
unchecked_identity(match) == TRUE
all_bound(match) == \A i \in 1..Len(match.players) : match.players[i].discord_id # NoId

ExitApprove(t, status, match_id) ==
    /\ lockHolder' = lock_after_exit(t, status)
    /\ UNCHANGED lockWaiters
    /\ Finish(t, "approve", status, task[t].oid, task[t].a1, match_id, FALSE)

\* async with approve_lock: taken at once when free with nobody waiting
ApproveStart(t, match_id, approver) ==
    /\ Free(t)
    /\ UNCHANGED stores
    /\ IF can_acquire
       THEN /\ lockHolder' = t
            /\ UNCHANGED lockWaiters
            /\ Goto(t, [Idle EXCEPT !.op = "approve", !.pc = "locked",
                                    !.oid = match_id, !.a1 = approver])
       ELSE /\ lockWaiters' = Append(lockWaiters, t)
            /\ UNCHANGED lockHolder
            /\ Goto(t, [Idle EXCEPT !.op = "approve", !.pc = "wait",
                                    !.oid = match_id, !.a1 = approver])

\* the oldest waiter takes the released lock
ApproveAcquire(t) ==
    /\ At(t, "approve", "wait")
    /\ can_wake(t)
    /\ lockHolder' = t
    /\ lockWaiters' = Tail(lockWaiters)
    /\ UNCHANGED stores
    /\ Goto(t, [task[t] EXCEPT !.pc = "locked"])

\* _to_oid, find_one, the identity check, the ranking reads, the final
\* rating update and the approval stamp
ApproveRead(t) ==
    /\ At(t, "approve", "locked")
    /\ UNCHANGED stores
    /\ LET res == find_one(task[t].oid)
           r == Recompute(res)
       IN IF ~to_oid_ok(task[t].oid) THEN ExitApprove(t, "InvalidID", 0)
          ELSE IF ~res.present THEN ExitApprove(t, "NotFound", 0)
          ELSE IF ~MatchModelOk(res) THEN ExitApprove(t, "Crash", 0)
          ELSE IF ~all_bound(res) THEN ExitApprove(t, "Validation", 0)
          ELSE IF r.raised THEN ExitApprove(t, "Crash", 0)
          ELSE /\ UNCHANGED <<lockHolder, lockWaiters>>
               /\ Goto(t, [task[t] EXCEPT
                             !.pc = "txn",
                             !.res = res,
                             !.match = [r.match EXCEPT !.approved_at = Stamp,
                                                       !.approver_discord_id = task[t].a1],
                             !.post = r.post])

\* the transaction: every write succeeds and it commits, or write k + 1
\* fails and it aborts
ApproveTxn(t) ==
    /\ At(t, "approve", "txn")
    /\ UNCHANGED nextOid
    /\ LET ws == TxnWrites(task[t].match)
       IN \E k \in 0..Len(ws) :
            LET written == ApplyWrites(CurrentStores, ws, k, task[t].oid,
                                       task[t].match, task[t].post)
                after == IF k = Len(ws) THEN written
                         ELSE abort_transaction(CurrentStores, written)
            IN /\ pending' = after.pending
               /\ validated' = after.validated
               /\ stats' = after.stats
               /\ subs_table' = after.subs_table
               /\ ExitApprove(t, IF k = Len(ws) THEN "ok" ELSE "TxnFail",
                              IF k = Len(ws) THEN Len(after.validated) ELSE 0)

(* ------------------------- mutation operations ------------------------- *)
(* Every mutation ends with find_one and updated.pop("_id"): it raises on  *)
(* None when the document is gone by then.                                 *)
Reread(t, op) ==
    /\ At(t, op, "reread")
    /\ UNCHANGED <<stores, lockHolder, lockWaiters>>
    /\ IF find_one(task[t].oid).present
       THEN Finish(t, op, "ok", task[t].oid, task[t].a1, task[t].oid, FALSE)
       ELSE Finish(t, op, "Crash", task[t].oid, task[t].a1, 0, FALSE)

(* The prefix the mutations share: _to_oid, find_one, NotFound.            *)
LoadStatus(match_id) ==
    IF ~to_oid_ok(match_id) THEN "InvalidID"
    ELSE IF ~find_one(match_id).present THEN "NotFound"
    ELSE "ok"

Call(op, match_id, a1, a2, order, match) ==
    [op |-> op, pc |-> "rank", oid |-> match_id, a1 |-> a1, a2 |-> a2, order |-> order,
     res |-> find_one(match_id), match |-> match, post |-> NoPost]

\* the ranking reads and the three rating updates of a mutation
Rank(t, op) ==
    /\ At(t, op, "rank")
    /\ UNCHANGED <<stores, lockHolder, lockWaiters>>
    /\ LET r == Recompute(task[t].match)
       IN IF r.raised
          THEN Finish(t, op, "Crash", task[t].oid, task[t].a1, 0, FALSE)
          ELSE Goto(t, [task[t] EXCEPT !.pc = "write", !.match = r.match])

WriteDoc(t, doc) ==
    /\ pending' = [pending EXCEPT ![task[t].oid] = IF @.present THEN doc ELSE @]
    /\ UNCHANGED <<nextOid, validated, stats, subs_table, lockHolder, lockWaiters>>
    /\ Goto(t, [task[t] EXCEPT !.pc = "reread", !.res = NoDoc, !.match = NoDoc])

(* append_discord_message_id_list *)
AppendStart(t, match_id) ==
    /\ Free(t)
    /\ UNCHANGED <<stores, lockHolder, lockWaiters>>
    /\ IF LoadStatus(match_id) # "ok"
       THEN Finish(t, "append", LoadStatus(match_id), match_id, 0, 0, FALSE)
       ELSE Goto(t, [Call("append", match_id, 0, 0, <<>>, find_one(match_id))
                       EXCEPT !.pc = "write"])

AppendWrite(t) ==
    /\ At(t, "append", "write")
    /\ WriteDoc(t, [pending[task[t].oid] EXCEPT
                      !.msgs = task[t].match.msgs \o <<MsgOf(t)>>])

(* update: payload "empty", "flag" or "unflag" *)
update_one_upsert(doc, payload) ==
    [doc EXCEPT !.present = TRUE, !.flagged = (payload = "flag")]

\* update_one({"_id": oid}, {"$set": update_data}): no document matched,
\* nothing written
update_one_set(doc, payload) ==
    IF doc.present THEN [doc EXCEPT !.flagged = (payload = "flag")] ELSE doc

UpdateStart(t, match_id, payload) ==
    /\ Free(t)
    /\ UNCHANGED <<nextOid, validated, stats, subs_table, lockHolder, lockWaiters>>
    /\ IF payload = "empty"
       THEN Finish(t, "update", "Validation", match_id, 0, 0, FALSE) /\ UNCHANGED pending
       ELSE IF ~to_oid_ok(match_id)
       THEN Finish(t, "update", "InvalidID", match_id, 0, 0, FALSE) /\ UNCHANGED pending
       ELSE /\ pending' = [pending EXCEPT ![match_id] = update_one_set(@, payload)]
            /\ IF ~find_one(match_id).present
               THEN Finish(t, "update", "NotFound", match_id, 0, 0, FALSE)
               ELSE Goto(t, [Call("update", match_id, 0, 0, <<>>, NoDoc)
                               EXCEPT !.pc = "reread"])

(* change_order: new_order is the list of the tokens' integer values *)
change_order_placements(players, new_order) ==
    [i \in 1..Len(players) |->
        [players[i] EXCEPT !.placement = new_order[players[i].team + 1] - 1]]

any_order_length(players, new_order) == TRUE
change_order_ok(players, new_order) ==
    Len(new_order) = Cardinality({players[i].team : i \in 1..Len(players)})

\* the outcome carries the number of tokens of new_order
ChangeOrderStart(t, match_id, new_order) ==
    /\ Free(t)
    /\ UNCHANGED <<stores, lockHolder, lockWaiters>>
    /\ LET res == find_one(match_id)
           n == Len(new_order)
       IN IF LoadStatus(match_id) # "ok"
          THEN Finish(t, "change_order", LoadStatus(match_id), match_id, n, 0, FALSE)
          ELSE IF ~MatchModelOk(res)
          THEN Finish(t, "change_order", "Crash", match_id, n, 0, FALSE)
          ELSE IF ~change_order_ok(res.players, new_order)
          THEN Finish(t, "change_order", "Validation", match_id, n, 0, FALSE)
          ELSE IF \E i \in 1..Len(res.players) : res.players[i].team + 1 > Len(new_order)
          THEN Finish(t, "change_order", "Crash", match_id, n, 0, FALSE)
          ELSE Goto(t, Call("change_order", match_id, n, 0, new_order,
                            [res EXCEPT !.players =
                                 change_order_placements(@, new_order)]))

ChangeOrderWrite(t) ==
    /\ At(t, "change_order", "write")
    /\ LET m == task[t].match
           doc == pending[task[t].oid]
       IN WriteDoc(t, [doc EXCEPT
             !.msgs = m.msgs \o <<MsgOf(t)>>,
             !.players = SetRows(doc, Len(m.players),
                 [i \in 1..Len(m.players) |-> [StoredRow(doc, i) EXCEPT
                     !.placement = m.players[i].placement,
                     !.delta = m.players[i].delta,
                     !.season_delta = m.players[i].season_delta,
                     !.combined_delta = m.players[i].combined_delta]])])

(* delete_pending_match *)
DeleteStart(t, match_id) ==
    /\ Free(t)
    /\ UNCHANGED <<stores, lockHolder, lockWaiters>>
    /\ IF LoadStatus(match_id) # "ok"
       THEN Finish(t, "delete", LoadStatus(match_id), match_id, 0, 0, FALSE)
       ELSE Goto(t, [Call("delete", match_id, 0, 0, <<>>, NoDoc) EXCEPT !.pc = "write"])

DeleteWrite(t) ==
    /\ At(t, "delete", "write")
    /\ pending' = [pending EXCEPT ![task[t].oid] = NoDoc]
    /\ UNCHANGED <<nextOid, validated, stats, subs_table, lockHolder, lockWaiters>>
    /\ Finish(t, "delete", "ok", task[t].oid, 0, task[t].oid, FALSE)

(* trigger_quit *)
QuitRows(players, quitter) ==
    {i \in 1..Len(players) : players[i].discord_id = quitter}

TriggerQuitStart(t, match_id, quitter) ==
    /\ Free(t)
    /\ UNCHANGED <<stores, lockHolder, lockWaiters>>
    /\ IF LoadStatus(match_id) # "ok"
       THEN Finish(t, "trigger_quit", LoadStatus(match_id), match_id, quitter, 0, FALSE)
       ELSE IF \E i \in QuitRows(find_one(match_id).players, quitter) :
                  i = FirstOf(QuitRows(find_one(match_id).players, quitter))
                  /\ ~find_one(match_id).players[i].whole
       THEN Finish(t, "trigger_quit", "Crash", match_id, quitter, 0, FALSE)
       ELSE Goto(t, [Call("trigger_quit", match_id, quitter, 0, <<>>,
                          find_one(match_id)) EXCEPT !.pc = "write"])

TriggerQuitWrite(t) ==
    /\ At(t, "trigger_quit", "write")
    /\ LET m == task[t].match
           doc == pending[task[t].oid]
           hit == QuitRows(m.players, task[t].a1)
           k == IF hit = {} THEN 0 ELSE FirstOf(hit)
       IN WriteDoc(t, [doc EXCEPT
             !.msgs = m.msgs \o <<MsgOf(t)>>,
             !.players = SetRows(doc, k,
                 [i \in 1..k |-> IF i = k
                                 THEN [StoredRow(doc, i) EXCEPT !.quit = ~m.players[k].quit]
                                 ELSE StoredRow(doc, i)])])

(* assign_discord_id: player_id is the 1-based slot *)
AssignDiscordIdStart(t, match_id, player_id, player_discord_id) ==
    /\ Free(t)
    /\ UNCHANGED <<stores, lockHolder, lockWaiters>>
    /\ LET res == find_one(match_id)
       IN IF LoadStatus(match_id) # "ok"
          THEN Finish(t, "assign_discord_id", LoadStatus(match_id), match_id, player_id, 0, FALSE)
          ELSE IF ~MatchModelOk(res)
          THEN Finish(t, "assign_discord_id", "Crash", match_id, player_id, 0, FALSE)
          ELSE IF player_id < 1 \/ player_id > Len(res.players)
          THEN Finish(t, "assign_discord_id", "Validation", match_id, player_id, 0, FALSE)
          ELSE Goto(t, Call("assign_discord_id", match_id, player_id,
                            player_discord_id, <<>>,
                            [res EXCEPT
                               !.players[player_id].discord_id = player_discord_id,
                               !.players[player_id].steam_id =
                                   discord_to_steam_id(player_discord_id)]))

AssignDiscordIdWrite(t) ==
    /\ At(t, "assign_discord_id", "write")
    /\ LET m == task[t].match
           doc == pending[task[t].oid]
           k == task[t].a1
       IN WriteDoc(t, [doc EXCEPT
             !.msgs = m.msgs \o <<MsgOf(t)>>,
             !.players = SetRows(doc, Len(m.players),
                 [i \in 1..Len(m.players) |->
                    LET b == [StoredRow(doc, i) EXCEPT
                                 !.delta = m.players[i].delta,
                                 !.season_delta = m.players[i].season_delta]
                    IN IF i = k
                       THEN [b EXCEPT !.discord_id = m.players[k].discord_id,
                                      !.steam_id = m.players[k].steam_id]
                       ELSE b])])

(* assign_sub: sub_in_id is the 0-based slot *)
assign_sub_row_first(players, sub_in_id, sub_out_discord_id) ==
    LET marked == [players EXCEPT ![sub_in_id + 1].is_sub = TRUE]
        origin == marked[sub_in_id + 1]
        row == [PlayerModel(discord_to_steam_id(sub_out_discord_id), origin.civ,
                            origin.team, origin.leader, origin.player_alive,
                            sub_out_discord_id, origin.placement)
                  EXCEPT !.subbed_out = TRUE]
    IN InsertAt(marked, sub_in_id + 1, row)

assign_sub_players(players, sub_in_id, sub_out_discord_id) ==
    LET marked == [players EXCEPT ![sub_in_id + 1].is_sub = TRUE]
        origin == marked[sub_in_id + 1]
        row == [PlayerModel(discord_to_steam_id(sub_out_discord_id), origin.civ,
                            origin.team, origin.leader, origin.player_alive,
                            sub_out_discord_id, origin.placement)
                  EXCEPT !.subbed_out = TRUE]
    IN InsertAt(marked, sub_in_id + 2, row)

AssignSubStart(t, match_id, sub_in_id, sub_out_discord_id) ==
    /\ Free(t)
    /\ UNCHANGED <<stores, lockHolder, lockWaiters>>
    /\ LET res == find_one(match_id)
       IN IF LoadStatus(match_id) # "ok"
          THEN Finish(t, "assign_sub", LoadStatus(match_id), match_id, sub_in_id, 0, FALSE)
          ELSE IF ~MatchModelOk(res)
          THEN Finish(t, "assign_sub", "Crash", match_id, sub_in_id, 0, FALSE)
          ELSE IF sub_in_id < 0 \/ sub_in_id >= Len(res.players)
          THEN Finish(t, "assign_sub", "Validation", match_id, sub_in_id, 0, FALSE)
          ELSE Goto(t, Call("assign_sub", match_id, sub_in_id, sub_out_discord_id,
                            <<>>,
                            [res EXCEPT !.players =
                                 assign_sub_players(@, sub_in_id, sub_out_discord_id)]))

\* replace_one(match.dict()) with the correlation id appended
ReplaceWrite(t, op) ==
    /\ At(t, op, "write")
    /\ WriteDoc(t, [task[t].match EXCEPT !.msgs = @ \o <<MsgOf(t)>>])

(* remove_sub: sub_out_id indexes match.players as Python does, from 0 *)
remove_sub_ok(players, sub_out_id) ==
    ~(sub_out_id < 1 \/ sub_out_id >= Len(players) \/ ~players[sub_out_id + 1].subbed_out)

remove_sub_keeps_flag(players, sub_out_id) == RemoveAt(players, sub_out_id + 1)
remove_sub_players(players, sub_out_id) ==
    RemoveAt([players EXCEPT ![sub_out_id].is_sub = FALSE], sub_out_id + 1)

RemoveSubStart(t, match_id, sub_out_id) ==
    /\ Free(t)
    /\ UNCHANGED <<stores, lockHolder, lockWaiters>>
    /\ LET res == find_one(match_id)
       IN IF LoadStatus(match_id) # "ok"
          THEN Finish(t, "remove_sub", LoadStatus(match_id), match_id, sub_out_id, 0, FALSE)
          ELSE IF ~MatchModelOk(res)
          THEN Finish(t, "remove_sub", "Crash", match_id, sub_out_id, 0, FALSE)
          ELSE IF ~remove_sub_ok(res.players, sub_out_id)
          THEN Finish(t, "remove_sub", "Validation", match_id, sub_out_id, 0, FALSE)
          ELSE Goto(t, Call("remove_sub", match_id, sub_out_id, 0, <<>>,
                            [res EXCEPT !.players =
                                 remove_sub_players(@, sub_out_id)]))

(* get *)
Get(t, match_id) ==
    /\ Free(t)
    /\ UNCHANGED <<stores, lockHolder, lockWaiters>>
    /\ IF LoadStatus(match_id) # "ok"
       THEN Finish(t, "get", LoadStatus(match_id), match_id, 0, 0, FALSE)
       ELSE Finish(t, "get", "ok", match_id, 0, match_id, FALSE)

(* get_leaderboard: find({games: {$gt: 2}}).sort([(mu, -1), (sigma, 1)])   *)
(* .limit(100), projected.  The order of rows equal in mu and sigma is not *)
(* fixed by the query: every order is a possible result.  mu is a whole    *)
(* number here, so int(mu) is mu.                                          *)
\* a query without the games filter
every_row(coll) ==
    {id \in DOMAIN coll : coll[id].id # NoId}

Eligible(coll) ==
    {id \in DOMAIN coll : coll[id].id # NoId /\ coll[id].games > LeaderboardCutoff}

\* row a comes before row b in every result
Better(a, b) == a.mu > b.mu \/ (a.mu = b.mu /\ a.sigma < b.sigma)

SortRank(i, S, coll) == Cardinality({j \in S : Better(coll[j], coll[i])})

TieOrders(G) ==
    {q \in [1..Cardinality(G) -> G] :
        \A a, b \in 1..Cardinality(G) : a # b => q[a] # q[b]}

\* the orders of the rows of S whose rank is in R: by rank, rows of one rank
\* in any order
RECURSIVE Sortings(_, _, _)
Sortings(R, S, coll) ==
    IF R = {} THEN {<<>>}
    ELSE IF Cardinality(R) = 1 THEN TieOrders({i \in S : SortRank(i, S, coll) \in R})
    ELSE LET lo == {r \in R : 2 * Cardinality({x \in R : x < r}) < Cardinality(R)}
         IN  {a \o b : a \in Sortings(lo, S, coll), b \in Sortings(R \ lo, S, coll)}

Min(a, b) == IF a < b THEN a ELSE b

LeaderboardRow(row) ==
    [discord_id |-> row.id, rating |-> row.mu, games_played |-> row.games,
     wins |-> row.wins, first |-> row.first]

get_leaderboard(coll) ==
    LET S == Eligible(coll)
    IN  { [k \in 1..Min(Len(q), LeaderboardLimit) |-> LeaderboardRow(coll[q[k]])] :
            q \in Sortings({SortRank(i, S, coll) : i \in S}, S, coll) }

GetLeaderboard(t, space) ==
    /\ Free(t)
    /\ UNCHANGED <<stores, lockHolder, lockWaiters>>
    /\ \E rows \in get_leaderboard(stats[space]) :
          FinishQuery(t, "get_leaderboard", space, rows)

(* ------------------------------ inputs -------------------------------- *)
Keys == Oids \cup {BadKey}
Orders == {<<1>>, <<1, 2>>, <<2, 1>>, <<1, 1>>, <<1, 2, 3>>}
Slots == 0..MaxPlayers
Payloads == {"empty", "flag", "unflag"}

(* A request that appends a correlation id is admitted while the stored    *)
(* list is shorter than MaxMsgs, an insert-substitute while the match has  *)
(* fewer than MaxPlayers rows, a new document while fewer than MaxOid      *)
(* exist or are on their way.                                              *)
Room(k, maxMsgs) == find_one(k).present => Len(find_one(k).msgs) < maxMsgs
RowsRoom(k) == find_one(k).present => Len(find_one(k).players) < MaxPlayers

Ingest(t, files, maxOid) ==
    \/ \E f \in files : CreateFind(t, f, Reserved < maxOid)
    \/ CreateRank(t)
    \/ CreateInsert(t)

Approve(t, keys) ==
    \/ \E k \in keys, a \in Approvers : ApproveStart(t, k, a)
    \/ ApproveAcquire(t)
    \/ ApproveRead(t)
    \/ ApproveTxn(t)

BindIdentity(t, keys, maxMsgs) ==
    \/ \E k \in keys, i \in Slots, d \in Ids :
          Room(k, maxMsgs) /\ AssignDiscordIdStart(t, k, i, d)
    \/ Rank(t, "assign_discord_id")
    \/ AssignDiscordIdWrite(t)
    \/ Reread(t, "assign_discord_id")

InsertSubstitute(t, keys, maxMsgs) ==
    \/ \E k \in keys, i \in Slots \cup {-1}, d \in Ids :
          Room(k, maxMsgs) /\ RowsRoom(k) /\ AssignSubStart(t, k, i, d)
    \/ Rank(t, "assign_sub")
    \/ ReplaceWrite(t, "assign_sub")
    \/ Reread(t, "assign_sub")

RemoveSubstitute(t, keys, maxMsgs) ==
    \/ \E k \in keys, i \in Slots : Room(k, maxMsgs) /\ RemoveSubStart(t, k, i)
    \/ Rank(t, "remove_sub")
    \/ ReplaceWrite(t, "remove_sub")
    \/ Reread(t, "remove_sub")

Reorder(t, keys, maxMsgs) ==
    \/ \E k \in keys, o \in Orders : Room(k, maxMsgs) /\ ChangeOrderStart(t, k, o)
    \/ Rank(t, "change_order")
    \/ ChangeOrderWrite(t)
    \/ Reread(t, "change_order")

ToggleQuit(t, keys, maxMsgs) ==
    \/ \E k \in keys, q \in Ids : Room(k, maxMsgs) /\ TriggerQuitStart(t, k, q)
    \/ TriggerQuitWrite(t)
    \/ Reread(t, "trigger_quit")

AppendIds(t, keys, maxMsgs) ==
    \/ \E k \in keys : Room(k, maxMsgs) /\ AppendStart(t, k)
    \/ AppendWrite(t)
    \/ Reread(t, "append")

UpdateFields(t, keys) ==
    \/ \E k \in keys, p \in Payloads : UpdateStart(t, k, p)
    \/ Reread(t, "update")

DeletePending(t, keys) ==
    \/ \E k \in keys : DeleteStart(t, k)
    \/ DeleteWrite(t)

Query(t, keys) ==
    \/ \E k \in keys : Get(t, k)
    \/ \E s \in Spaces : GetLeaderboard(t, s)

(* Concurrent approvals of the matches that ingestion leaves ready for    *)
(* approval.                                                               *)
Next ==
    \/ Deliver
    \/ \E t \in Tasks : Ingest(t, {1, 2, 4}, MaxOid)
    \/ \E t \in Tasks : Approve(t, Keys)

Spec == Init /\ [][Next]_vars

(* The same requests under the scheduling of the event loop.  An outcome   *)
(* that is ready is returned to its caller (weak fairness of Deliver).  A  *)
(* coroutine that is ready to run is run: its step is disabled only while  *)
(* an outcome is being returned, which happens again and again, so the     *)
(* fairness that expresses "the loop runs every ready coroutine" is the    *)
(* strong one.  asyncio.Lock wakes its waiters first come, first served    *)
(* (lockWaiters).                                                          *)
ApproveStep(t) == ApproveAcquire(t) \/ ApproveRead(t) \/ ApproveTxn(t)

MaxOidLive == 1      \* pending records ever inserted
NextLive ==
    \/ Deliver
    \/ \E t \in Tasks : Ingest(t, {1, 2}, MaxOidLive)
    \/ \E t \in Tasks : Approve(t, {1, BadKey})

SpecLive ==
    /\ Init /\ [][NextLive]_vars
    /\ WF_vars(Deliver)
    /\ \A t \in Tasks : SF_vars(ApproveStep(t))

(* One match: ingestion, identity binding, substitution and approval, all  *)
(* concurrently.                                                           *)
MaxOidCommit == 1
NextCommit ==
    \/ Deliver
    \/ \E t \in Tasks : Ingest(t, {1, 2, 3}, MaxOidCommit)
    \/ \E t \in Tasks : Approve(t, {1, BadKey})
    \/ \E t \in Tasks : BindIdentity(t, {1}, MaxMsgs)
    \/ \E t \in Tasks : InsertSubstitute(t, {1}, MaxMsgs)

SpecCommit == Init /\ [][NextCommit]_vars

(* One match edited by one request after another: ingestion, then the     *)
(* mutation operations that change the player list or the placements.     *)
MaxOidEdit == 1      \* pending records ever inserted
MaxMsgsEdit == 4     \* length of a correlation-id list
NextEdit ==
    \/ Deliver
    \/ \E t \in {1} : Ingest(t, GoodFiles, MaxOidEdit)
    \/ \E t \in {1} : InsertSubstitute(t, {1}, MaxMsgsEdit)
    \/ \E t \in {1} : RemoveSubstitute(t, {1}, MaxMsgsEdit)
    \/ \E t \in {1} : Reorder(t, {1}, MaxMsgsEdit)
    \/ \E t \in {1} : BindIdentity(t, {1}, MaxMsgsEdit)

SpecEdit == Init /\ [][NextEdit]_vars

(* One match and every operation of the service, one request after        *)
(* another, except that approvals may also come from the other tasks and   *)
(* wait for the gate.                                                      *)
MaxMsgsAll == 3      \* length of a correlation-id list
NextAll ==
    \/ Deliver
    \/ \E t \in {1} : Ingest(t, {1, 2}, MaxOidEdit)
    \/ \E t \in Tasks : Approve(t, {1, BadKey})
    \/ \E t \in {1} : BindIdentity(t, {1}, MaxMsgsAll)
    \/ \E t \in {1} : InsertSubstitute(t, {1}, MaxMsgsAll)
    \/ \E t \in {1} : RemoveSubstitute(t, {1}, MaxMsgsAll)
    \/ \E t \in {1} : Reorder(t, {1}, MaxMsgsAll)
    \/ \E t \in {1} : ToggleQuit(t, {1}, MaxMsgsAll)
    \/ \E t \in {1} : AppendIds(t, {1}, MaxMsgsAll)
    \/ \E t \in {1} : UpdateFields(t, {1, BadKey})
    \/ \E t \in {1} : DeletePending(t, {1, BadKey})
    \/ \E t \in {1} : Query(t, {1, BadKey})

SpecAll == Init /\ [][NextAll]_vars

(* One match mutated by two concurrent requests: task 1 appends            *)
(* correlation ids, toggles quit and changes the order (writes addressed  *)
(* by row index), task 2 inserts and removes substitutes (writes of the   *)
(* whole record).                                                         *)
MaxMsgsRace == 3     \* length of a correlation-id list
NextRace ==
    \/ Deliver
    \/ \E t \in {1} : Ingest(t, {1}, MaxOidEdit)
    \/ \E t \in {1} : AppendIds(t, {1}, MaxMsgsRace)
    \/ \E t \in {1} : ToggleQuit(t, {1}, MaxMsgsRace)
    \/ \E t \in {1} : Reorder(t, {1}, MaxMsgsRace)
    \/ \E t \in {2} : InsertSubstitute(t, {1}, MaxMsgsRace)
    \/ \E t \in {2} : RemoveSubstitute(t, {1}, MaxMsgsRace)

SpecRace == Init /\ [][NextRace]_vars

(* One match and the eight mutation operations, one request after         *)
(* another, with references that are malformed, unknown or stored.        *)
NextReject ==
    \/ Deliver
    \/ \E t \in {1} : Ingest(t, {1}, MaxOidEdit)
    \/ \E t \in {1} : BindIdentity(t, {1, BadKey}, MaxMsgsAll)
    \/ \E t \in {1} : InsertSubstitute(t, {1, BadKey}, MaxMsgsAll)
    \/ \E t \in {1} : RemoveSubstitute(t, {1, BadKey}, MaxMsgsAll)
    \/ \E t \in {1} : Reorder(t, {1, BadKey}, MaxMsgsAll)
    \/ \E t \in {1} : ToggleQuit(t, {1, BadKey}, MaxMsgsAll)
    \/ \E t \in {1} : AppendIds(t, {1, BadKey}, MaxMsgsAll)
    \/ \E t \in {1} : UpdateFields(t, {1, BadKey})
    \/ \E t \in {1} : DeletePending(t, {1, BadKey})

SpecReject == Init /\ [][NextReject]_vars

(* One match that concurrent requests approve or delete.                   *)
NextEnd ==
    \/ Deliver
    \/ \E t \in Tasks : Ingest(t, {1, 2}, MaxOidLive)
    \/ \E t \in Tasks : Approve(t, {1, BadKey})
    \/ \E t \in Tasks : DeletePending(t, {1, BadKey})

SpecEnd == Init /\ [][NextEnd]_vars

(* Leaderboard queries over aggregate-stats collections of any contents:   *)
(* every collection of up to three rows over a few values of mu, sigma and *)
(* games, and collections of MaxBoardRows rows, more than the query's      *)
(* limit, in which equal mu meets different sigma.                         *)
MaxBoardRows == 102
BoardMus == {TsMu - 1, TsMu + 1}
BoardSigmas == {TsSigma - 2, TsSigma - 1}
BoardGames == {LeaderboardCutoff, LeaderboardCutoff + 1}
BoardPatterns == {1, 2, 3}

SmallRows(id) ==
    {NoRow} \cup {StatModel(id, mu, sigma, g, 1, 1, 0, 0) :
                     mu \in BoardMus, sigma \in BoardSigmas, g \in BoardGames}

SmallColls == {c \in [Ids -> UNION {SmallRows(id) : id \in Ids}] :
                 \A id \in Ids : c[id] \in SmallRows(id)}

BigColl(p) ==
    [id \in 1..MaxBoardRows |->
        StatModel(id, TsMu + ((id * p) % 50), 1 + ((id + p) % TsSigma),
                  IF id % (50 + 10 * p) = 0 THEN LeaderboardCutoff
                  ELSE LeaderboardCutoff + 1 + (id % 3),
                  1 + (id % 2), id % 2, 0, 0)]

OtherColl == [id \in Ids |-> StatModel(id, TsMu, TsSigma, LeaderboardCutoff + 1, 1, 0, 0, 0)]

InitBoard ==
    /\ pending = [o \in Oids |-> NoDoc]
    /\ nextOid = 0
    /\ validated = <<>>
    /\ \E c \in SmallColls \cup {BigColl(p) : p \in BoardPatterns}, s0 \in Spaces :
          stats = [s \in Spaces |-> IF s = s0 THEN c ELSE OtherColl]
    /\ subs_table = [id \in Ids |-> 0]
    /\ lockHolder = 0
    /\ lockWaiters = <<>>
    /\ task = [t \in Tasks |-> Idle]
    /\ reported = NoReport

NextBoard ==
    \/ Deliver
    \/ \E t \in Tasks, s \in Spaces : GetLeaderboard(t, s)

SpecBoard == InitBoard /\ [][NextBoard]_vars

(* ------------------------------ claims -------------------------------- *)
InGate(t) == task[t].op = "approve" /\ task[t].pc \in {"locked", "txn"}
IdsOf(doc) == {doc.players[i].discord_id : i \in 1..Len(doc.players)}
Games(s, id) == IF stats[s][id].id = NoId THEN 0 ELSE stats[s][id].games

(* C1: at most one approve_match call is between acquiring and releasing   *)
(* approve_lock, and that call is the holder of the lock.                  *)
C1_OneApprovalAtATime ==
    /\ Cardinality({t \in Tasks : InGate(t)}) <= 1
    /\ \A t \in Tasks : InGate(t) => lockHolder = t

C1_Witness ==
    \E t, u \in Tasks : t # u /\ task[t].pc = "txn" /\ task[u].pc = "wait"

(* C2: an approval about to write has computed its posteriors from the     *)
(* rows that are committed now (its priors are not stale), and every       *)
(* identity's games in each of the three collections counts the validated  *)
(* matches it played in: after two approvals sharing a player, 2.          *)
C2_ConcurrentApprovalsKeepStats ==
    /\ \A t \in Tasks :
          (task[t].op = "approve" /\ task[t].pc = "txn")
              => Recompute(task[t].res).post = task[t].post
    /\ \A s \in Spaces, id \in Ids :
          Games(s, id) = Cardinality({k \in 1..Len(validated) :
                                         id \in IdsOf(validated[k].doc)})

C2_Witness ==
    /\ Len(validated) = 2
    /\ validated[1].src # validated[2].src
    /\ \E id \in IdsOf(validated[1].doc) \cap IdsOf(validated[2].doc) :
          \A s \in Spaces : Games(s, id) = 2

(* C3: when a write of the approval transaction fails, the step that       *)
(* aborts leaves every store as it was (no aggregate row, no validated     *)
(* match, the pending record untouched), reports the failure and frees     *)
(* the gate, so the match can be approved again.                           *)
C3_AbortLeavesNoTrace ==
    [][(reported'.op = "approve" /\ reported'.status = "TxnFail")
          => /\ UNCHANGED <<pending, nextOid, validated, stats, subs_table>>
             /\ pending'[reported'.oid].present
             /\ \A k \in 1..Len(validated') : validated'[k].src # reported'.oid
             /\ lockHolder' = 0]_vars

C3_Witness ==
    /\ reported.op = "approve" /\ reported.status = "TxnFail"
    /\ pending[reported.oid].present
    /\ \E i \in 1..Len(pending[reported.oid].players) :
          pending[reported.oid].players[i].is_sub

(* C5: approving a match one of whose rows has no discord id fails with a  *)
(* validation error and changes no store.                                  *)
C5_UnboundIdentityRejected ==
    [][\A t \in Tasks :
          (/\ At(t, "approve", "locked")
           /\ task'[t].pc # "locked"
           /\ LoadStatus(task[t].oid) = "ok"
           /\ MatchModelOk(find_one(task[t].oid))
           /\ \E i \in 1..Len(find_one(task[t].oid).players) :
                 find_one(task[t].oid).players[i].discord_id = NoId)
          => /\ reported'.task = t /\ reported'.status = "Validation"
             /\ UNCHANGED <<pending, nextOid, validated, stats, subs_table>>]_vars

C5_Witness ==
    /\ reported.op = "approve" /\ reported.status = "Validation"
    /\ \E i \in 1..Len(pending[reported.oid].players) :
          pending[reported.oid].players[i].discord_id = NoId

(* C6: the step that commits an approval removes the record from pending   *)
(* storage, appends exactly one validated match holding the rows the       *)
(* approval read, the approval stamp and the approver, and writes the      *)
(* aggregate rows of its players, all at once.                             *)
NoDeltas(p) == [p EXCEPT !.delta = 0, !.season_delta = 0, !.combined_delta = 0]
SameRows(a, b) ==
    Len(a) = Len(b) /\ \A i \in 1..Len(a) : NoDeltas(a[i]) = NoDeltas(b[i])

C6_ApprovalMovesRecord ==
    [][(reported'.op = "approve" /\ reported'.status = "ok")
          => LET t == reported'.task
                 oid == reported'.oid
                 v == validated'[Len(validated')]
             IN /\ ~pending'[oid].present
                /\ Len(validated') = Len(validated) + 1
                /\ SubSeq(validated', 1, Len(validated)) = validated
                /\ Cardinality({k \in 1..Len(validated') : validated'[k].src = oid}) = 1
                /\ v.src = oid
                /\ SameRows(v.doc.players, task[t].res.players)
                /\ v.doc.approved_at = Stamp
                /\ v.doc.approver_discord_id = reported'.a1
                /\ \A s \in Spaces, id \in IdsOf(task[t].res) :
                      /\ stats'[s][id].id = id
                      /\ stats'[s][id].games = Games(s, id) + 1]_vars

C6_Witness ==
    /\ reported.op = "approve" /\ reported.status = "ok"
    /\ ~pending[reported.oid].present
    /\ \E k \in 1..Len(validated) : validated[k].src = reported.oid

(* C7: the step that commits an approval leaves, for every row of the       *)
(* match and each collection, games = prior + 1, wins = prior + 1 exactly  *)
(* when that space's delta is positive, first = prior + 1 exactly when the *)
(* placement is 0, and the sub-in / sub-out counters + 1 exactly for an    *)
(* is_sub / subbed_out row.                                                *)
RowCounted(p, s) ==
    LET prior == get_player_ranking(p.discord_id, s)
        now == stats'[s][p.discord_id]
    IN /\ now.games = prior.games + 1
       /\ now.wins = prior.wins + (IF Field(p, s) > 0 THEN 1 ELSE 0)
       /\ now.first = prior.first + (IF p.placement = 0 THEN 1 ELSE 0)
       /\ now.subbedIn = prior.subbedIn + (IF p.is_sub THEN 1 ELSE 0)
       /\ now.subbedOut = prior.subbedOut + (IF p.subbed_out THEN 1 ELSE 0)

C7_CountersPerRow ==
    [][(reported'.op = "approve" /\ reported'.status = "ok")
          => LET m == task[reported'.task].match
             IN \A i \in 1..Len(m.players), s \in Spaces : RowCounted(m.players[i], s)]_vars

(* The same for the matches in which no identity holds two rows.           *)
DistinctIds(players) ==
    \A i, j \in 1..Len(players) : i # j => players[i].discord_id # players[j].discord_id

C7_CountersPerRowDistinctIds ==
    [][(/\ reported'.op = "approve" /\ reported'.status = "ok"
        /\ DistinctIds(task[reported'.task].match.players))
          => LET m == task[reported'.task].match
             IN \A i \in 1..Len(m.players), s \in Spaces : RowCounted(m.players[i], s)]_vars

HoldingHash(h) == {o \in Oids : pending[o].present /\ pending[o].hash = h}

C8_RepeatReturnsTheRecord ==
    [][\A t \in Tasks, f \in GoodFiles :
          (/\ task[t].pc = "idle"
           /\ HoldingHash(save_file_hash(parsed(f))) # {}
           /\ \/ task'[t].op = "create_from_save" /\ task'[t].a1 = f
              \/ /\ reported'.task = t /\ reported'.op = "create_from_save"
                 /\ reported'.a1 = f)
          => /\ reported'.status = "ok" /\ reported'.repeated
             /\ reported'.match_id = FirstOf(HoldingHash(save_file_hash(parsed(f))))
             /\ task' = task
             /\ UNCHANGED <<pending, nextOid, validated, stats, subs_table>>]_vars

C8_Witness ==
    /\ reported.op = "create_from_save" /\ reported.status = "ok" /\ reported.repeated
    /\ pending[reported.match_id].present
    /\ pending[reported.match_id].hash = save_file_hash(parsed(reported.a1))

(* C9: pending storage holds at most one record per save_file_hash.        *)
C9_OneRecordPerHash ==
    \A o1, o2 \in Oids :
       (pending[o1].present /\ pending[o2].present /\ pending[o1].hash = pending[o2].hash)
          => o1 = o2

(* C10: the write of an insert-substitute on slot i stores the rows it     *)
(* read with slot i marked is_sub and, right after it, one new row with    *)
(* slot i's civ, leader, team, placement and player_alive, subbed_out set  *)
(* and is_sub clear; the other rows keep their order and the count grows   *)
(* by one.                                                                 *)
C10_InsertSubstituteShape ==
    [][\A t \in Tasks :
          (/\ task[t].op = "assign_sub" /\ task[t].pc = "write"
           /\ task'[t].pc = "reread"
           /\ pending[task[t].oid].present)
          => LET before == task[t].res.players
                 after == pending'[task[t].oid].players
                 i == task[t].a1 + 1
             IN /\ Len(after) = Len(before) + 1
                /\ after[i].is_sub
                /\ NoDeltas(after[i]) = NoDeltas([before[i] EXCEPT !.is_sub = TRUE])
                /\ after[i + 1].civ = before[i].civ
                /\ after[i + 1].leader = before[i].leader
                /\ after[i + 1].team = before[i].team
                /\ after[i + 1].placement = before[i].placement
                /\ after[i + 1].player_alive = before[i].player_alive
                /\ after[i + 1].subbed_out /\ ~after[i + 1].is_sub
                /\ after[i + 1].discord_id = task[t].a2
                /\ \A j \in 1..(i - 1) : NoDeltas(after[j]) = NoDeltas(before[j])
                /\ \A j \in (i + 1)..Len(before) :
                      NoDeltas(after[j + 1]) = NoDeltas(before[j])]_vars

C10_Witness ==
    /\ reported.op = "assign_sub" /\ reported.status = "ok"
    /\ pending[reported.oid].present
    /\ \E i \in 1..(Len(pending[reported.oid].players) - 1) :
          /\ pending[reported.oid].players[i].is_sub
          /\ pending[reported.oid].players[i + 1].subbed_out

(* C11: in every stored pending record, each of the three deltas of an     *)
(* is_sub row is at least min_points_for_subs and each of the three deltas *)
(* of a subbed_out row is at most 0.                                       *)
DeltasOf(p) == {p.delta, p.season_delta, p.combined_delta}

C11_SubDeltaFloorCap ==
    \A o \in Oids : \A i \in 1..Len(pending[o].players) :
       LET p == pending[o].players[i]
       IN /\ p.is_sub => \A d \in DeltasOf(p) : d >= MinPointsForSubs
          /\ p.subbed_out => \A d \in DeltasOf(p) : d <= 0

(* C12: for every pending match and every slot i in range, assign_sub on   *)
(* slot i followed by remove_sub on the row it inserted (the row at the    *)
(* 1-based position i + 2) is accepted and gives back the player count and *)
(* the is_sub flag that slot i had before the insertion.                   *)
RoundTrip(doc, i, d) ==
    LET ins == Recompute([doc EXCEPT !.players = assign_sub_players(@, i, d)])
        k == i + 2
    IN ~ins.raised
          => /\ remove_sub_ok(ins.match.players, k)
             /\ Len(remove_sub_players(ins.match.players, k)) = Len(doc.players)
             /\ remove_sub_players(ins.match.players, k)[i + 1].is_sub
                   = doc.players[i + 1].is_sub

C12_RoundTrip ==
    \A o \in Oids :
       (pending[o].present /\ MatchModelOk(pending[o]))
          => \A i \in 0..(Len(pending[o].players) - 1), d \in Ids :
                RoundTrip(pending[o], i, d)

(* C13: a change_order call on a stored match whose new_order has a token  *)
(* count other than the number of distinct teams reports a validation      *)
(* error, changes nothing stored, and never reaches the rating update.     *)
NumTeams(doc) == Cardinality({doc.players[i].team : i \in 1..Len(doc.players)})

C13_ReorderLengthChecked ==
    [][/\ (/\ reported'.op = "change_order"
           /\ task[reported'.task].pc = "idle"
           /\ find_one(reported'.oid).present
           /\ MatchModelOk(find_one(reported'.oid))
           /\ reported'.a1 # NumTeams(find_one(reported'.oid)))
          => /\ reported'.status = "Validation"
             /\ UNCHANGED <<pending, nextOid, validated, stats, subs_table>>
       /\ \A t \in Tasks :
             (task[t].pc = "idle" /\ task'[t].op = "change_order")
                => Len(task'[t].order) = NumTeams(find_one(task'[t].oid))]_vars

C13_Witness ==
    /\ reported.op = "change_order" /\ reported.status = "Validation"
    /\ pending[reported.oid].present
    /\ reported.a1 > NumTeams(pending[reported.oid])

(* C14: a step that runs the rating update over the three stat spaces on   *)
(* a match with one distinct team completes it as a no-op: nothing is      *)
(* raised, the rows keep their deltas, no posterior is produced and no     *)
(* store changes.                                                          *)
RunsRating(t) ==
    \/ task[t].pc = "rank"
    \/ /\ task[t].op = "approve" /\ task[t].pc = "locked"
       /\ find_one(task[t].oid).present
       /\ MatchModelOk(find_one(task[t].oid))
       /\ all_bound(find_one(task[t].oid))

RatedMatch(t) ==
    IF task[t].op = "create_from_save"
    THEN [task[t].match EXCEPT !.players = match_id_to_discord(@)]
    ELSE IF task[t].op = "approve" THEN find_one(task[t].oid)
    ELSE task[t].match

C14_SingleTeamNoOp ==
    [][\A t \in Tasks :
          (RunsRating(t) /\ task'[t] # task[t] /\ NumTeams(RatedMatch(t)) = 1)
          => /\ ~Recompute(RatedMatch(t)).raised
             /\ Recompute(RatedMatch(t)).match = RatedMatch(t)
             /\ \A sp \in Spaces : Recompute(RatedMatch(t)).post[sp] = <<>>
             /\ UNCHANGED <<pending, nextOid, validated, stats, subs_table>>]_vars

(* C15: no row of a stored pending record is both is_sub and subbed_out.   *)
C15_OneFlagPerRow ==
    \A o \in Oids : \A i \in 1..Len(pending[o].players) :
       ~(pending[o].players[i].is_sub /\ pending[o].players[i].subbed_out)

(* C16: the aggregate-stats collections and the validated matches change   *)
(* only in the step that commits an approval; a validated match is never   *)
(* modified or removed and an aggregate-stats row is never removed.        *)
C16_PermanentStoresFrame ==
    [][/\ (validated' # validated \/ stats' # stats)
             => reported'.op = "approve" /\ reported'.status = "ok"
       /\ Len(validated') >= Len(validated)
       /\ SubSeq(validated', 1, Len(validated)) = validated
       /\ \A s \in Spaces, id \in Ids :
             stats[s][id].id # NoId => stats'[s][id].id # NoId]_vars

C16_Witness ==
    /\ Len(validated) >= 1
    /\ \E s \in Spaces, id \in Ids : stats[s][id].id # NoId
    /\ reported.op \in {"get_leaderboard", "delete", "update", "append", "get"}

BoardOk(rows, coll) ==
    /\ Len(rows) <= LeaderboardLimit
    /\ \A k \in 1..Len(rows) :
          /\ rows[k].games_played > LeaderboardCutoff
          /\ rows[k].discord_id \in DOMAIN coll
          /\ rows[k] = LeaderboardRow(coll[rows[k].discord_id])
    /\ \A k \in 1..(Len(rows) - 1) :
          LET a == coll[rows[k].discord_id]
              b == coll[rows[k + 1].discord_id]
          IN  a.mu > b.mu \/ (a.mu = b.mu /\ a.sigma <= b.sigma)

(* C17: a leaderboard query returns only rows of the selected collection   *)
(* whose games is above the cutoff, at most LeaderboardLimit of them, by   *)
(* mu descending and, for equal mu, sigma ascending, and changes no store. *)
C17_Leaderboard ==
    [][reported'.op = "get_leaderboard" /\ reported = NoReport
          => /\ UNCHANGED <<stores, lockHolder, lockWaiters>>
             /\ BoardOk(reported'.rows, stats[reported'.space])]_vars

C17_Witness ==
    /\ reported.op = "get_leaderboard"
    /\ Cardinality(Eligible(stats[reported.space])) > LeaderboardLimit
    /\ Len(reported.rows) = LeaderboardLimit
    /\ \E k \in 1..(Len(reported.rows) - 1) :
          reported.rows[k].rating = reported.rows[k + 1].rating

(* C18: when change_order, assign_discord_id, assign_sub or remove_sub     *)
(* reports success, every row of the stored pending record holds, in each  *)
(* of delta, season_delta and combined_delta, the value the rating update  *)
(* computes on the stored player list.                                     *)
DeltaTriple(p) == <<p.delta, p.season_delta, p.combined_delta>>

StoredAsRecomputed(doc) ==
    /\ ~Recompute(doc).raised
    /\ \A i \in 1..Len(doc.players) :
          DeltaTriple(doc.players[i]) = DeltaTriple(Recompute(doc).match.players[i])

C18_StoredDeltasRecomputed ==
    (/\ reported.op \in {"change_order", "assign_discord_id", "assign_sub", "remove_sub"}
     /\ reported.status = "ok"
     /\ pending[reported.oid].present)
       => StoredAsRecomputed(pending[reported.oid])

(* C19: remove_sub reads sub_out_id as a 1-based slot.  A call on a stored *)
(* match is accepted exactly when slot sub_out_id is within 1..player      *)
(* count and holds a subbed_out row; an accepted call clears is_sub on the *)
(* slot before it and deletes that row; a rejected call reports a          *)
(* validation error and changes nothing stored.                            *)
OneBasedOk(doc, k) == k \in 1..Len(doc.players) /\ doc.players[k].subbed_out

OneBasedRemoved(doc, k) ==
    RemoveAt([i \in 1..Len(doc.players) |->
                 IF i = k - 1 THEN [doc.players[i] EXCEPT !.is_sub = FALSE]
                 ELSE doc.players[i]], k)

C19_RemoveSubOneBased ==
    [][/\ \A t \in Tasks :
             (task[t].pc = "idle" /\ task'[t].op = "remove_sub")
                => /\ OneBasedOk(find_one(task'[t].oid), task'[t].a1)
                   /\ task'[t].match.players
                         = OneBasedRemoved(find_one(task'[t].oid), task'[t].a1)
       /\ (/\ reported'.op = "remove_sub"
           /\ task[reported'.task].pc = "idle"
           /\ find_one(reported'.oid).present
           /\ MatchModelOk(find_one(reported'.oid)))
             => /\ ~OneBasedOk(find_one(reported'.oid), reported'.a1)
                /\ reported'.status = "Validation"
                /\ UNCHANGED <<pending, nextOid, validated, stats, subs_table>>]_vars

(* C20: a change_order call on a stored match whose new_order has as many  *)
(* tokens as the match has distinct teams succeeds, and what it stores     *)
(* gives every player the placement of the token of the player's team      *)
(* (token value minus 1), whatever the team numbers of the match are.      *)
TeamPos(doc, team) ==
    1 + Cardinality({doc.players[j].team : j \in 1..Len(doc.players)}
                       \cap {x \in 0..team : x < team})

PlacedByTeam(doc, stored, order) ==
    /\ Len(stored.players) = Len(doc.players)
    /\ \A i \in 1..Len(doc.players) :
          stored.players[i].placement = order[TeamPos(doc, doc.players[i].team)] - 1

C20_ReorderAnyTeams ==
    [][/\ (/\ reported'.op = "change_order"
           /\ find_one(reported'.oid).present
           /\ MatchModelOk(find_one(reported'.oid))
           /\ reported'.a1 = NumTeams(find_one(reported'.oid)))
             => reported'.status = "ok"
       /\ \A t \in Tasks :
             (task[t].op = "change_order" /\ task[t].pc = "write" /\ task'[t].pc # "write")
                => PlacedByTeam(pending[task[t].oid], pending'[task[t].oid],
                                task[t].order)]_vars

(* C21: the correlation-id list of a pending match only grows at its end:  *)
(* every write to a stored record leaves the list it held as a prefix of   *)
(* the list it holds afterwards.                                           *)
IsPrefix(a, b) == Len(a) <= Len(b) /\ SubSeq(b, 1, Len(a)) = a

C21_MsgsAppendOnly ==
    [][\A o \in Oids :
          (pending[o].present /\ pending'[o].present)
             => IsPrefix(pending[o].msgs, pending'[o].msgs)]_vars

(* C22: the player list a mutation stores is the list that mutation        *)
(* computed from the record it read: every field it writes by row index    *)
(* lands on the row it was computed for, whatever another mutation of the  *)
(* same record stored in between.                                          *)
ComputedRows(t) ==
    LET m == task[t].match
        hit == QuitRows(m.players, task[t].a1)
    IN CASE task[t].op = "trigger_quit" ->
              [i \in 1..Len(m.players) |->
                  IF hit # {} /\ i = FirstOf(hit)
                  THEN [m.players[i] EXCEPT !.quit = ~m.players[i].quit]
                  ELSE m.players[i]]
         [] task[t].op = "assign_discord_id" ->
              [i \in 1..Len(m.players) |->
                  [m.players[i] EXCEPT
                      !.combined_delta = task[t].res.players[i].combined_delta]]
         [] OTHER -> m.players

C22_LastWriterWins ==
    [][\A t \in Tasks :
          (/\ task[t].op \in {"change_order", "trigger_quit", "assign_discord_id",
                              "assign_sub", "remove_sub"}
           /\ task[t].pc = "write" /\ task'[t].pc = "reread"
           /\ pending[task[t].oid].present)
             => pending'[task[t].oid].players = ComputedRows(t)]_vars

(* C23: submissions of one save content count once: in every stat space    *)
(* the games of an identity is at most the number of distinct save         *)
(* contents (fingerprints) among the validated matches it played in.       *)
ContentsOf(id) ==
    {validated[k].doc.hash :
        k \in {j \in 1..Len(validated) : id \in IdsOf(validated[j].doc)}}

C23_ContentCountedOnce ==
    \A s \in Spaces, id \in Ids : Games(s, id) <= Cardinality(ContentsOf(id))

(* C24: in the match a successful approval commits, every row's delta in   *)
(* each stat space is the rounded difference of posterior and prior mean   *)
(* (0 for a row without identity) after the sub floor and the subbed-out   *)
(* cap, and the mean written for an identity is its prior mean in that     *)
(* collection plus that delta of its row (the last of its rows).           *)
ExpectedDelta(m, s, i) ==
    LET rk == get_players_ranking(m, s)
        p == m.players[i]
        raw == IF p.discord_id # NoId
               THEN RoundHalfEven(rate_mu2(m.players, rk, ~p.is_sub, i) - 2 * rk[i].mu)
               ELSE 0
    IN IF p.is_sub THEN (IF raw < MinPointsForSubs THEN MinPointsForSubs ELSE raw)
       ELSE IF p.subbed_out THEN (IF raw < 0 THEN raw ELSE 0)
       ELSE raw

Committed == validated'[Len(validated')].doc

C24_DeltaIsUnitOfTruth ==
    [][(reported = NoReport /\ reported'.op = "approve" /\ reported'.status = "ok")
          => \A s \in Spaces, i \in 1..Len(Committed.players) :
                LET p == Committed.players[i]
                IN /\ Field(p, s) = ExpectedDelta(Committed, s, i)
                   /\ (\A j \in (i + 1)..Len(Committed.players) :
                           Committed.players[j].discord_id # p.discord_id)
                        => stats'[s][p.discord_id].mu
                              = get_player_ranking(p.discord_id, s).mu + Field(p, s)]_vars

C24_Witness ==
    /\ reported.op = "approve" /\ reported.status = "ok"
    /\ \E i \in 1..Len(validated[Len(validated)].doc.players) :
          LET m == validated[Len(validated)].doc
              p == m.players[i]
          IN /\ p.is_sub /\ p.placement > 0 /\ p.delta = MinPointsForSubs
             /\ \A j \in 1..Len(m.players) : j # i => m.players[j].discord_id # p.discord_id
             /\ stats["delta"][p.discord_id].mu = TsMu + MinPointsForSubs

(* C25: a call of change_order, trigger_quit, assign_discord_id,           *)
(* assign_sub, remove_sub, append, update or delete that is rejected for   *)
(* a malformed reference, an unknown match or a validation error is        *)
(* rejected in its first step and that step writes nothing.                *)
Rejected(r) ==
    /\ r.op \in {"change_order", "trigger_quit", "assign_discord_id", "assign_sub",
                 "remove_sub", "append", "update", "delete"}
    /\ r.status \in {"InvalidID", "NotFound", "Validation"}

C25_RejectedCallsWriteNothing ==
    [][(reported = NoReport /\ Rejected(reported'))
          => /\ task[reported'.task].pc = "idle"
             /\ UNCHANGED <<pending, nextOid, validated, stats, subs_table>>]_vars

C25_Witness ==
    /\ reported.op = "assign_sub" /\ reported.status = "Validation"
    /\ pending[1].present
    /\ reported.a1 >= Len(pending[1].players)

(* C26: the validated match a successful approval inserts is the pending   *)
(* record as it is stored when the approval removes it: the same           *)
(* correlation ids and the same rows (identity, placement, quit and        *)
(* substitution flags), so that no mutation stored during the approval is  *)
(* lost.                                                                   *)
WithoutDeltas(players) ==
    [i \in 1..Len(players) |->
        [players[i] EXCEPT !.delta = 0, !.season_delta = 0, !.combined_delta = 0]]

C26_ValidatedIsWhatWasStored ==
    [][(reported = NoReport /\ reported'.op = "approve" /\ reported'.status = "ok")
          => LET stored == pending[validated'[Len(validated')].src]
             IN /\ stored.present
                /\ Committed.msgs = stored.msgs
                /\ WithoutDeltas(Committed.players) = WithoutDeltas(stored.players)]_vars

(* C27: a pending match ends in one way.  A delete_pending_match call that *)
(* reports success is not on a match that is validated, and an approval    *)
(* commits only a match that is still in pending storage.                  *)
C27_DeletedNeverValidated ==
    [][/\ (reported = NoReport /\ reported'.op = "delete" /\ reported'.status = "ok")
             => \A k \in 1..Len(validated') : validated'[k].src # reported'.oid
       /\ (reported = NoReport /\ reported'.op = "approve" /\ reported'.status = "ok")
             => pending[reported'.oid].present]_vars

(* C28: a pending match is approved at most once.  As stated: every        *)
(* approve_match call on the key of a record succeeds or fails with        *)
(* NotFound, and a success is the first for its record, inserts one        *)
(* validated match and adds one to the games of each of its players.       *)
ApproveReport(r) == r.op = "approve" /\ r.oid \in Oids /\ r.oid <= nextOid
ValidatedFrom(oid) == {k \in 1..Len(validated) : validated[k].src = oid}

FirstAndOnlyCommit(oid) ==
    /\ ValidatedFrom(oid) = {}
    /\ Len(validated') = Len(validated) + 1
    /\ validated'[Len(validated')].src = oid
    /\ \A s \in Spaces : \A id \in IdsOf(Committed) \ {NoId} :
          stats'[s][id].games = Games(s, id) + 1

C28_EveryOtherCallNotFound ==
    [][(reported = NoReport /\ ApproveReport(reported'))
          => \/ reported'.status = "ok" /\ FirstAndOnlyCommit(reported'.oid)
             \/ reported'.status = "NotFound"]_vars

(* C28, amended: a success is the first for its record, inserts one        *)
(* validated match and adds one to the games of each of its players, and   *)
(* every approve_match call that ends after the record was validated       *)
(* fails with NotFound; a call that ends before may also fail on an        *)
(* unbound identity or a failed transaction and leaves the record pending. *)
C28_ApprovedAtMostOnce ==
    [][(reported = NoReport /\ ApproveReport(reported'))
          => /\ reported'.status = "ok" => FirstAndOnlyCommit(reported'.oid)
             /\ ValidatedFrom(reported'.oid) # {} => reported'.status = "NotFound"
             /\ reported'.status \in {"Validation", "TxnFail"}
                   => pending'[reported'.oid].present /\ UNCHANGED stores]_vars

C28_Witness ==
    /\ reported.op = "approve" /\ reported.status = "NotFound"
    /\ ValidatedFrom(reported.oid) # {}

(* C29: in every stored pending record each subbed_out row closes a run of *)
(* rows of one team that starts at an is_sub row, and there are as many    *)
(* is_sub rows as subbed_out rows.                                         *)
Paired(players) ==
    /\ Cardinality({i \in 1..Len(players) : players[i].is_sub})
          = Cardinality({i \in 1..Len(players) : players[i].subbed_out})
    /\ \A i \in 1..Len(players) :
          players[i].subbed_out
             => \E j \in 1..(i - 1) :
                   /\ players[j].is_sub
                   /\ \A k \in j..i : players[k].team = players[i].team

C29_SubstitutionRowsPaired ==
    \A o \in Oids : pending[o].present => Paired(pending[o].players)

(* C30: every record with at least two teams that an insert-substitute,   *)
(* remove-substitute, change-order or bind-identity call stores or hands   *)
(* to the rating update has every team in both team groupings, so each     *)
(* rating run receives at least two non-empty teams, and every row gets    *)
(* its posterior from exactly one of the two runs.                         *)
AllTeams(players) == {players[i].team : i \in 1..Len(players)}
SameGroupings(players) ==
    /\ GroupTeams(players, TRUE) = AllTeams(players)
    /\ GroupTeams(players, FALSE) = AllTeams(players)
    /\ Cardinality(GroupTeams(players, TRUE)) >= 2
    /\ Cardinality(GroupTeams(players, FALSE)) >= 2
    /\ \A i \in 1..Len(players) :
          InGrouping(players[i], TRUE)
             # (InGrouping(players[i], FALSE) /\ players[i].is_sub)
EditOps == {"assign_sub", "remove_sub", "change_order", "assign_discord_id"}
Rated(t) == task[t].op \in EditOps /\ task[t].pc = "rank"

C30_GroupingsHoldSameTeams ==
    /\ \A o \in Oids :
          (pending[o].present /\ NumTeams(pending[o]) >= 2)
              => SameGroupings(pending[o].players)
    /\ \A t \in Tasks :
          (Rated(t) /\ NumTeams(task[t].match) >= 2)
              => SameGroupings(task[t].match.players)

\* a record with a substitute and a substituted-out row has been rated and stored
C30_Witness ==
    \E o \in Oids :
        /\ pending[o].present
        /\ NumTeams(pending[o]) >= 2
        /\ \E i \in 1..Len(pending[o].players) : pending[o].players[i].is_sub
        /\ \E i \in 1..Len(pending[o].players) : pending[o].players[i].subbed_out
        /\ \E i \in 1..Len(pending[o].msgs) : pending[o].msgs[i] # 0
        /\ reported.op = "remove_sub" /\ reported.status = "ok"

(* C31: the step that commits an approval leaves every identity of the     *)
(* match, in each collection, with a skill mean equal to its prior mean    *)
(* plus the sum of that space's deltas of all the rows that carry the      *)
(* identity, so no row's upsert is lost to another row's.                  *)
RECURSIVE SumDeltas(_, _, _, _)
SumDeltas(players, id, s, k) ==
    IF k = 0 THEN 0
    ELSE (IF players[k].discord_id = id THEN Field(players[k], s) ELSE 0)
         + SumDeltas(players, id, s, k - 1)

IdentityCredited(m, id, s) ==
    stats'[s][id].mu
        = get_player_ranking(id, s).mu + SumDeltas(m.players, id, s, Len(m.players))

C31_EveryRowReachesTheStores ==
    [][(reported'.op = "approve" /\ reported'.status = "ok")
          => LET m == task[reported'.task].match
             IN \A i \in 1..Len(m.players), s \in Spaces :
                   IdentityCredited(m, m.players[i].discord_id, s)]_vars
====
